---- MODULE Spec2Model ----
(***************************************************************************)
(* Job caching and polling of the aquamonitor notebook helpers.            *)
(*                                                                         *)
(*   notebooks/cached_job.py  CachedJob: title -> job id cache kept in a   *)
(*                            local JSON file                              *)
(*   notebooks/utils.py       start_and_wait / wait: the status poller     *)
(*                                                                         *)
(* The openEO backend (list_jobs, create_job, start_job, describe_job) is  *)
(* the environment: its answers are nondeterministic choices.              *)
(***************************************************************************)
EXTENDS Integers, Sequences, FiniteSets, TLC

VARIABLES
    \* ---- the backend ----
    jobs,               \* job id -> [status]; status "absent" = not listed
    nextId,             \* the id the next create_job issues
    \* ---- the local cache file and the CachedJob handle of each process ----
    file,               \* [kind, map]: the content of the cache file
    h,                  \* holder (a variable of a notebook process) -> the
                        \* CachedJob it holds (and how it was built)
    op,                 \* the operation that made the last step, and its process
    args,               \* the arguments of the constructor call under SpecResolve
    \* ---- one call of utils.start_and_wait.wait: its parameters and locals ----
    wpc,                \* "idle" | "polling" | "returned" | "raised"
    wjob,               \* the closure variable job (its id)
    max_poll_interval,
    soft_error_max,
    poll_interval,      \* in Unit-ths of a second
    status,
    soft_error_count,   \* _soft_error_count
    job_info,           \* [bound, has_status, status]
    exc,                \* the exception wait raised: [type, job, status]
    polls,              \* number of describe_job calls made
    retry_sleeps,       \* number of sleep(connection_retry_interval) made
    last,               \* the last loop iteration: [poll, slept, secs, reauth],
                        \* and prev, the poll of the iteration before it
    \* ---- one call of get_files_from_dc / get_urls_from_dc / get_or_create_cache ----
    rr                  \* its arguments, position, backend calls and results

backendVars == <<jobs, nextId>>
cacheVars   == <<file, h, op, args>>
waitVars    == <<wpc, wjob, max_poll_interval, soft_error_max, poll_interval,
                 status, soft_error_count, job_info, exc, polls, retry_sleeps, last>>
resultVars  == <<rr>>
vars        == <<jobs, nextId, file, h, op, args,
                 wpc, wjob, max_poll_interval, soft_error_max, poll_interval,
                 status, soft_error_count, job_info, exc, polls, retry_sleeps, last,
                 rr>>

----------------------------------------------------------------------------
(* Bounds of the model *)

\* job ids the backend can issue: 1..MaxJobs
MaxJobs == 2
\* describe_job calls one wait may make
MaxPolls == 14
\* soft_error_max is drawn from 0..MaxSoftErrorMax
MaxSoftErrorMax == 3
\* assets in the result set of a job
MaxAssets == 3
\* the values of a job's updated field: 1..MaxUpdated
MaxUpdated == 2

----------------------------------------------------------------------------
(* Values *)

Ids     == 1..MaxJobs
NoId    == 0                       \* job_id=None (or any falsy job_id)
Titles  == {"T1", "T2"}
NoTitle == "-"
Procs   == {"p1", "p2"}

\* RemoteJob.status; 'submitted' is the legacy name the poller also accepts
ActiveStatuses   == {"submitted", "created", "queued", "running"}
TerminalStatuses == {"finished", "error", "canceled"}
Absent           == "absent"

\* One second, in model units: 1.25 * x is then exact integer arithmetic for
\* the twelve multiplications that take 5 s to the 60 s cap (5 * 1.25^12 > 60)
Unit == 4 ^ 12

Min(a, b) == IF a <= b THEN a ELSE b

----------------------------------------------------------------------------
(* notebooks/utils.py: start_and_wait.wait *)

\* connection_retry_interval: int = 30
ConnectionRetryInterval == 30
\* the values max_poll_interval is drawn from; 60 is the default
MaxPollIntervals == {3, 8, 60}
\* http_status_code of an OpenEoApiError
HttpCodes == {403, 404, 500, 503}

\* poll_interval = min(5, max_poll_interval)
InitialPollInterval(cap) == Min(5 * Unit, cap * Unit)

\* (mutant) the cap is forgotten
NextPollInterval_NoCap(pi, cap) == pi + (pi \div 4)

\* poll_interval = min(1.25 * poll_interval, max_poll_interval)
NextPollInterval(pi, cap) == Min(pi + (pi \div 4), cap * Unit)

\* (mutant) >= for >: the last tolerated soft error is fatal
SoftErrorsExceeded_OffByOne(count, max) == count >= max

\* if _soft_error_count > soft_error_max: raise
SoftErrorsExceeded(count, max) == count > max

\* (mutant) the legacy status submitted ends the loop
KeepsPolling_NoSubmitted(s) == s \in {"created", "queued", "running"}

\* status not in ('submitted', 'created', 'queued', 'running') is the break
KeepsPolling(s) == s \in {"submitted", "created", "queued", "running"}

\* (mutant) only the status error is taken for a failure
DidNotFinish_OnlyError(s) == s = "error"

\* if status != "finished": raise JobFailedException
DidNotFinish(s) == s # "finished"

\* status = job_info.get("status", "N/A")
StatusOf(ji) == IF ji.has_status THEN ji.status ELSE "N/A"

\* (mutant) every code but 403 is taken for a soft error
ApiErrorClass_NeverRaises(code) == IF code = 403 THEN "reauth" ELSE "soft"

\* if e.http_status_code == 503 ... elif e.http_status_code == 403 ... else
ApiErrorClass(code) ==
    IF code = 503 THEN "soft" ELSE IF code = 403 THEN "reauth" ELSE "raise"

NoExc     == [type |-> "none", job |-> NoId, status |-> "-"]
NoJobInfo == [bound |-> FALSE, has_status |-> FALSE, status |-> "-"]
NoLast    == [poll |-> "none", slept |-> "none", secs |-> 0, reauth |-> FALSE,
              prev |-> "none"]

\* (mutant) a soft error counts twice
SoftErrorCountAfter_Twice(count) == count + 2

\* _soft_error_count += 1
SoftErrorCountAfter(count) == count + 1

\* soft_error(message), followed by the loop's continue
soft_error(kind) ==
    /\ soft_error_count' = SoftErrorCountAfter(soft_error_count)
    /\ IF SoftErrorsExceeded(SoftErrorCountAfter(soft_error_count), soft_error_max)
       THEN /\ wpc' = "raised"
            /\ exc' = [type |-> "OpenEoClientException: Excessive soft errors",
                       job |-> NoId, status |-> "-"]
            /\ retry_sleeps' = retry_sleeps
            /\ last' = [poll |-> kind, slept |-> "none", secs |-> 0, reauth |-> FALSE,
                        prev |-> last.poll]
       ELSE /\ wpc' = "polling"
            /\ exc' = exc
            /\ retry_sleeps' = retry_sleeps + 1
            /\ last' = [poll |-> kind, slept |-> "retry",
                        secs |-> ConnectionRetryInterval * Unit, reauth |-> FALSE,
                        prev |-> last.poll]
    /\ UNCHANGED <<poll_interval, status, job_info>>

\* Lines 111-124: what the loop does with job_info once the try statement is
\* passed, with the raise / return that follows a break
ActOnJobInfo(ji, kind, reauth) ==
    /\ status' = StatusOf(ji)
    /\ IF KeepsPolling(StatusOf(ji))
       THEN /\ wpc' = "polling"
            /\ exc' = exc
            /\ last' = [poll |-> kind, slept |-> "poll", secs |-> poll_interval,
                        reauth |-> reauth, prev |-> last.poll]
            /\ poll_interval' = NextPollInterval(poll_interval, max_poll_interval)
       ELSE /\ IF DidNotFinish(StatusOf(ji))
               THEN /\ wpc' = "raised"
                    /\ exc' = [type |-> "JobFailedException", job |-> wjob,
                               status |-> StatusOf(ji)]
               ELSE /\ wpc' = "returned"
                    /\ exc' = exc
            /\ last' = [poll |-> kind, slept |-> "none", secs |-> 0, reauth |-> reauth,
                        prev |-> last.poll]
            /\ poll_interval' = poll_interval

\* job_info = job.describe_job() succeeds
PollOk(has) ==
    /\ wpc = "polling" /\ polls < MaxPolls
    /\ jobs[wjob].status # Absent
    /\ polls' = polls + 1
    /\ job_info' = [bound |-> TRUE, has_status |-> has,
                    status |-> IF has THEN jobs[wjob].status ELSE "-"]
    /\ ActOnJobInfo(job_info', "ok", FALSE)
    /\ UNCHANGED <<soft_error_count, retry_sleeps>>
    /\ UNCHANGED <<wjob, max_poll_interval, soft_error_max>>
    /\ UNCHANGED <<backendVars, cacheVars, resultVars>>

\* except ConnectionError
PollConnectionError ==
    /\ wpc = "polling" /\ polls < MaxPolls
    /\ polls' = polls + 1
    /\ soft_error("ConnectionError")
    /\ UNCHANGED <<wjob, max_poll_interval, soft_error_max>>
    /\ UNCHANGED <<backendVars, cacheVars, resultVars>>

\* except OpenEoApiError as e; last.poll records e.http_status_code
PollApiError(code) ==
    /\ wpc = "polling" /\ polls < MaxPolls
    /\ polls' = polls + 1
    /\ CASE ApiErrorClass(code) = "soft" ->
              soft_error(ToString(code))
         [] ApiErrorClass(code) = "reauth" ->
              \* authenticate_oidc(), and no continue: the loop body goes on
              \* with the job_info of an earlier iteration, if there is one
              /\ UNCHANGED <<soft_error_count, retry_sleeps, job_info>>
              /\ IF job_info.bound
                 THEN ActOnJobInfo(job_info, ToString(code), TRUE)
                 ELSE /\ wpc' = "raised"
                      /\ exc' = [type |-> "UnboundLocalError", job |-> NoId,
                                 status |-> "-"]
                      /\ last' = [poll |-> ToString(code), slept |-> "none",
                                  secs |-> 0, reauth |-> TRUE,
                                  prev |-> last.poll]
                      /\ UNCHANGED <<poll_interval, status>>
         [] OTHER ->
              /\ wpc' = "raised"
              /\ exc' = [type |-> "OpenEoApiError", job |-> NoId, status |-> "-"]
              /\ last' = [poll |-> ToString(code), slept |-> "none", secs |-> 0,
                          reauth |-> FALSE, prev |-> last.poll]
              /\ UNCHANGED <<soft_error_count, retry_sleeps, job_info,
                             poll_interval, status>>
    /\ UNCHANGED <<wjob, max_poll_interval, soft_error_max>>
    /\ UNCHANGED <<backendVars, cacheVars, resultVars>>

----------------------------------------------------------------------------
(* The backend *)

NoJob == [status |-> Absent]

\* created -> queued -> running -> finished | error | canceled
BackendNext(s) ==
    CASE s \in {"created", "submitted"} -> {"queued"}
      [] s = "queued"  -> {"running"}
      [] s = "running" -> {"finished", "error", "canceled"}
      [] OTHER         -> {}

\* the backend works on a started job
BackendProgress(id) ==
    /\ jobs[id].status \in ActiveStatuses
    /\ \E s \in BackendNext(jobs[id].status) :
           jobs' = [jobs EXCEPT ![id].status = s]
    /\ UNCHANGED <<nextId, cacheVars, waitVars, resultVars>>

----------------------------------------------------------------------------
(* notebooks/cached_job.py: CachedJob *)

\* local_cache_file: None, or the path of the one cache file
CachePaths == {"None", "F"}

EmptyCache == [t \in Titles |-> NoId]

\* (mutant) the file is read even when no path was given
LoadCache_IgnoresPath(path, f) == IF f.kind # "json" THEN EmptyCache ELSE f.map

\* try: load(open(local_cache_file)) except (FileNotFoundError, JSONDecodeError,
\* TypeError): {}    (open(None) raises the TypeError)
LoadCache(path, f) ==
    IF path = "None" \/ f.kind # "json" THEN EmptyCache ELSE f.map

\* (mutant) the flag is read the wrong way round
IsCacheHit_Inverted(cache, title, recalculate) == cache[title] # NoId /\ recalculate

\* (mutant) or for and
IsCacheHit_Or(cache, title, recalculate) == cache[title] # NoId \/ ~recalculate

\* if job_title in self._job_cache.keys() and not recalculate
IsCacheHit(cache, title, recalculate) == cache[title] # NoId /\ ~recalculate

\* (mutant) the listing is not consulted
IsListed_Unchecked(js, id) == TRUE

\* any(filter(lambda job: job.get("id") == job_id, connection.list_jobs()))
IsListed(js, id) == js[id].status # Absent

NoHandle == [state |-> "none", job_title |-> NoTitle, local_cache_file |-> "None",
             job_cache |-> [t \in Titles |-> NoId], is_cached |-> FALSE,
             job_id |-> NoId]

\* The operation that made the last step: how it ended, and the title it
\* passed to create_job (NoTitle: it made no create_job call)
Call(name, p, outcome, created) ==
    [name |-> name, proc |-> p, outcome |-> outcome, created |-> created]

\* CachedJob(job_title, local_cache_file, connection, job_id, flat_graph,
\* recalculate); job_id = NoId and flat_graph = FALSE are the falsy arguments.
\* A constructor that raises yields no object: the process is left without one.
Construct(p, title, path, job_id, flat_graph, recalculate) ==
    LET cache == LoadCache(path, file)
        new   == [state |-> "bound", job_title |-> title, local_cache_file |-> path,
                  job_cache |-> cache, is_cached |-> FALSE, job_id |-> NoId]
        call(outcome) == Call("construct", p, outcome, NoTitle)
    IN
    /\ IF IsCacheHit(cache, title, recalculate)
       THEN /\ h' = [h EXCEPT ![p] =
                        [new EXCEPT !.job_id = cache[title], !.is_cached = TRUE]]
            /\ op' = call("bound")
            /\ UNCHANGED backendVars
       ELSE IF job_id # NoId
       THEN /\ IF IsListed(jobs, job_id)
               THEN /\ h' = [h EXCEPT ![p] = [new EXCEPT !.job_id = job_id]]
                    /\ op' = call("bound")
               ELSE /\ h' = [h EXCEPT ![p] = NoHandle]
                    /\ op' = call("AttributeError: job id not found in backend.")
            /\ UNCHANGED backendVars
       ELSE IF flat_graph
       THEN \* connection.create_job(process_graph=flat_graph, title=job_title)
            /\ nextId <= MaxJobs
            /\ jobs' = [jobs EXCEPT ![nextId] = [status |-> "created"]]
            /\ nextId' = nextId + 1
            /\ h' = [h EXCEPT ![p] = [new EXCEPT !.job_id = nextId]]
            /\ op' = Call("construct", p, "bound", title)
       ELSE /\ h' = [h EXCEPT ![p] = NoHandle]
            /\ op' = call("AttributeError: requires either a job_id, or a process_graph")
            /\ UNCHANGED backendVars
    /\ UNCHANGED <<file, waitVars, resultVars>>

\* (mutant) the handle's own entry is not put into the mapping
SavedCache_WithoutOwn(hd) == hd.job_cache

\* self.job_cache[self._job_title] = self.job_id
SavedCache(hd) == [hd.job_cache EXCEPT ![hd.job_title] = hd.job_id]

\* (mutant) the save is never made
SavesAfterWait_Never(hd) == FALSE

\* if self._local_cache_file: self.save()
SavesAfterWait(hd) == hd.local_cache_file # "None"

\* (mutant) the save sits in a finally clause
SaveIsReached_Finally(outcome, hd) == SavesAfterWait(hd)

\* self.save() is reached when super().start_and_wait() returned, not when it
\* raised
SaveIsReached(outcome, hd) == outcome = "returned" /\ SavesAfterWait(hd)

\* BatchJob.start_and_wait is the client library's: it starts the job, polls
\* it, returns once it finished and raises otherwise
WaitOutcomes(js, id) ==
    IF js[id].status = Absent
    THEN {"OpenEoApiError"}
    ELSE {"returned", "JobFailedException: error", "JobFailedException: canceled",
          "OpenEoClientException: Excessive soft errors", "OpenEoApiError"}

\* the status the job is left in
StatusAfter(s, outcome) ==
    CASE outcome = "returned"                     -> "finished"
      [] outcome = "JobFailedException: error"    -> "error"
      [] outcome = "JobFailedException: canceled" -> "canceled"
      [] OTHER                                    -> s

\* CachedJob.start_and_wait: super().start_and_wait(print=logger.info), then
\* the save when a cache file is configured
StartAndWait(p) ==
    /\ h[p].state = "bound"
    /\ \E outcome \in WaitOutcomes(jobs, h[p].job_id) :
          /\ op' = Call("start_and_wait", p, outcome, NoTitle)
          /\ jobs' = [jobs EXCEPT ![h[p].job_id].status = StatusAfter(@, outcome)]
          /\ IF SaveIsReached(outcome, h[p])
             THEN /\ h' = [h EXCEPT ![p].job_cache = SavedCache(h[p])]
                  /\ file' = [kind |-> "json", map |-> SavedCache(h[p])]
             ELSE /\ h' = h
                  /\ file' = file
    /\ UNCHANGED <<nextId, waitVars, resultVars>>

\* the backend drops a job (jobs expire between runs)
BackendDelete(id) ==
    /\ jobs[id].status # Absent
    /\ jobs' = [jobs EXCEPT ![id] = NoJob]
    /\ op' = Call("delete", "-", "-", NoTitle)
    /\ UNCHANGED <<nextId, file, h, waitVars, resultVars>>

----------------------------------------------------------------------------
(* notebooks/utils.py: get_files_from_dc / get_urls_from_dc: the assets *)

\* a string as the sequence of its parts, so that a prefix is a prefix
StartsWith(str, prefix) ==
    /\ Len(prefix) <= Len(str)
    /\ SubSeq(str, 1, Len(prefix)) = prefix

\* asset.metadata["type"] of the assets a backend returns
MediaTypes == {<<"application/", "x-netcdf">>,
               <<"image/", "tiff">>,
               <<"image/", "tiff", "; application=geotiff">>,
               <<"image/", "png">>,
               <<"application/", "json">>,
               <<"text/", "plain">>}

\* (mutant) and for or: no media type starts with both prefixes
IsDownloaded_Both(meta_type) ==
    /\ StartsWith(meta_type, <<"application/", "x-netcdf">>)
    /\ StartsWith(meta_type, <<"image/", "tiff">>)

\* meta_type.startswith("application/x-netcdf") or
\* meta_type.startswith("image/tiff")
IsDownloaded(meta_type) ==
    \/ StartsWith(meta_type, <<"application/", "x-netcdf">>)
    \/ StartsWith(meta_type, <<"image/", "tiff">>)

\* the k-th asset of a result set: its name, media type and remote location
Asset(k, t) == [name |-> <<"name", k>>, type |-> t, href |-> <<"href", k>>]

\* the result sets results.get_assets() may return: MaxAssets assets at most
AssetLists ==
    UNION {{[k \in 1..n |-> Asset(k, ts[k])] : ts \in [1..n -> MediaTypes]}
              : n \in 0..MaxAssets}

\* asset.download(out_directory / asset.name, ...) returns the path written
DownloadPath(asset) == <<"out_directory">> \o asset.name

\* [asset.href for asset in assets]
Hrefs(assets) == [k \in 1..Len(assets) |-> assets[k].href]

NoResults  == [id |-> NoId, vito |-> FALSE]
NoResolver == [fn |-> "-", pc |-> "idle", job_name |-> NoTitle,
               recalculate |-> FALSE, calls |-> <<>>, job |-> NoId,
               vito |-> FALSE, results |-> NoResults, assets |-> <<>>, i |-> 0,
               files |-> <<>>, downloads |-> <<>>, out |-> <<>>, exc |-> "none"]

\* one iteration of: for asset in results.get_assets()
FilesLoop ==
    /\ rr.fn = "get_files_from_dc" /\ rr.pc = "results"
    /\ rr.i <= Len(rr.assets)
    /\ LET asset == rr.assets[rr.i] IN
       IF IsDownloaded(asset.type)
       THEN rr' = [rr EXCEPT !.i = rr.i + 1,
                             !.downloads = Append(rr.downloads, asset.name),
                             !.files = Append(rr.files, DownloadPath(asset))]
       ELSE rr' = [rr EXCEPT !.i = rr.i + 1]
    /\ UNCHANGED <<backendVars, cacheVars, waitVars>>

\* return files
FilesReturn ==
    /\ rr.fn = "get_files_from_dc" /\ rr.pc = "results"
    /\ rr.i > Len(rr.assets)
    /\ rr' = [rr EXCEPT !.pc = "done", !.out = rr.files]
    /\ UNCHANGED <<backendVars, cacheVars, waitVars>>

\* return [asset.href for asset in results.get_assets()]
UrlsReturn ==
    /\ rr.fn = "get_urls_from_dc" /\ rr.pc = "results"
    /\ rr' = [rr EXCEPT !.pc = "done", !.out = Hrefs(rr.assets),
                        !.i = Len(rr.assets) + 1]
    /\ UNCHANGED <<backendVars, cacheVars, waitVars>>

----------------------------------------------------------------------------
(* notebooks/utils.py: get_or_create_results / get_or_create_cache *)

\* the jobs the backend lists before the call are 1..MaxJobs; the job the call
\* creates gets the next id
NewId == MaxJobs + 1
\* job["updated"], compared with >
Updates == 1..MaxUpdated

\* a job summary of list_jobs(): {id, title, status, updated}
Summary(id, job) == [id |-> id, title |-> job.title, status |-> job.status,
                     updated |-> job.updated]
Unlisted == [status |-> Absent, title |-> NoTitle, updated |-> 0]
NoSummary == Summary(NoId, Unlisted)

\* connection.list_jobs(): the summaries of the jobs the backend has
RECURSIVE ListJobsFrom(_, _)
ListJobsFrom(js, id) ==
    IF id \notin DOMAIN js THEN <<>>
    ELSE (IF js[id].status = Absent THEN <<>> ELSE <<Summary(id, js[id])>>)
             \o ListJobsFrom(js, id + 1)
list_jobs(js) == ListJobsFrom(js, 1)

\* (mutant) the older of the two is kept
Later_Older(j1, j2) == IF j1.updated < j2.updated THEN j1 ELSE j2

\* lambda j1, j2: j1 if j1["updated"] > j2["updated"] else j2
Later(j1, j2) == IF j1.updated > j2.updated THEN j1 ELSE j2

\* functools.reduce(function, sequence, initial)
RECURSIVE reduce(_, _)
reduce(match_jobs, m) ==
    IF match_jobs = <<>> THEN m
    ELSE reduce(Tail(match_jobs), Later(m, Head(match_jobs)))

\* get_latest_completed_job(jobs, title); NoSummary is None
get_latest_completed_job(listing, title) ==
    LET match_jobs == SelectSeq(listing, LAMBDA job :
                          job.title = title /\ job.status = "finished")
    IN  IF listing = <<>> THEN NoSummary
        ELSE IF match_jobs = <<>> THEN NoSummary
        ELSE reduce(Tail(match_jobs), Head(match_jobs))

\* if not recalculate: ... ; get_or_create_cache has no such flag and always
\* looks
LooksForFinishedJob(fn, recalculate) ==
    fn = "get_or_create_cache" \/ ~recalculate

\* a job id as issued, and whether the text 'vito' occurs in it
JobId(id, vito) == [id |-> id, vito |-> vito]
\* re.sub(r'vito', r'', job.job_id)
StripVito(job_id) == [job_id EXCEPT !.vito = FALSE]

\* RESTJob(id).get_results() in get_or_create_results, load_result(id) in
\* get_or_create_cache
ResultsCall(fn) ==
    IF fn = "get_or_create_cache" THEN "load_result" ELSE "get_results"

\* results = None; if not recalculate: job = get_latest_completed_job(...);
\* if job: results = RESTJob(job["id"], ...).get_results()
\* (get_cache for get_or_create_cache)
Lookup ==
    /\ rr.pc = "called"
    /\ IF LooksForFinishedJob(rr.fn, rr.recalculate)
       THEN LET job == get_latest_completed_job(list_jobs(jobs), rr.job_name) IN
            IF job # NoSummary
            THEN rr' = [rr EXCEPT !.pc = "results",
                                  !.calls = rr.calls \o <<"list_jobs", ResultsCall(rr.fn)>>,
                                  !.job = job.id,
                                  !.results = JobId(job.id, FALSE)]
            ELSE rr' = [rr EXCEPT !.pc = "create",
                                  !.calls = Append(rr.calls, "list_jobs")]
       ELSE rr' = [rr EXCEPT !.pc = "create"]
    /\ UNCHANGED <<backendVars, cacheVars, waitVars>>

\* start_and_wait: job = dc._connection.create_job(..., title=job_name)
CreateJob ==
    /\ rr.pc = "create"
    /\ nextId = NewId
    /\ \E vito \in BOOLEAN :
          rr' = [rr EXCEPT !.pc = "created", !.job = nextId, !.vito = vito,
                           !.calls = Append(rr.calls, "create_job")]
    /\ jobs' = [jobs EXCEPT ![nextId] = [status |-> "created",
                                         title |-> rr.job_name,
                                         updated |-> MaxUpdated]]
    /\ nextId' = nextId + 1
    /\ UNCHANGED <<cacheVars, waitVars>>

\* start_and_wait: job.start_job()
StartJob ==
    /\ rr.pc = "created"
    /\ rr' = [rr EXCEPT !.pc = "started", !.calls = Append(rr.calls, "start_job")]
    /\ jobs' = [jobs EXCEPT ![rr.job].status = "queued"]
    /\ UNCHANGED <<nextId, cacheVars, waitVars>>

\* the ways wait ends: it returns, or raises one of these
WaitExits == {"returned", "JobFailedException", "UnboundLocalError",
              "OpenEoClientException: Excessive soft errors", "OpenEoApiError"}

\* the status wait may leave the job in: finished when it returns; when it
\* raises, any (JobFailedException is also raised on a job_info without status)
StatusAtExit(exit) ==
    IF exit = "returned" THEN {"finished"}
    ELSE {"queued", "running", "finished", "error", "canceled"}

\* start_and_wait: wait(start_time=start_time, soft_error_max=50), as one step
Wait ==
    /\ rr.pc = "started"
    /\ \E exit \in WaitExits : \E s \in StatusAtExit(exit) :
          /\ jobs' = [jobs EXCEPT ![rr.job].status = s]
          /\ rr' = [rr EXCEPT !.pc = IF exit = "returned" THEN "waited" ELSE "raised",
                              !.exc = IF exit = "returned" THEN "none" ELSE exit,
                              !.calls = Append(rr.calls, "describe_job")]
    /\ UNCHANGED <<nextId, cacheVars, waitVars>>

\* results = start_and_wait(...).get_results(), or
\* load_result(re.sub(r'vito', r'', job.job_id))
TakeResults ==
    /\ rr.pc = "waited"
    /\ rr' = [rr EXCEPT !.pc = "results",
                        !.calls = Append(rr.calls, ResultsCall(rr.fn)),
                        !.results = IF rr.fn = "get_or_create_cache"
                                    THEN StripVito(JobId(rr.job, rr.vito))
                                    ELSE JobId(rr.job, rr.vito)]
    /\ UNCHANGED <<backendVars, cacheVars, waitVars>>

----------------------------------------------------------------------------
(* SpecWait: one call of wait on a job that was created and started *)

NoArgs   == [title |-> NoTitle, path |-> "None", job_id |-> NoId,
             flat_graph |-> FALSE, recalculate |-> FALSE]
NoFile   == [kind |-> "missing", map |-> [t \in Titles |-> NoId]]
InitWait ==
    /\ \E s \in {"created", "submitted"} :
           jobs = [i \in Ids |-> IF i = 1 THEN [status |-> s]
                                 ELSE NoJob]
    /\ nextId = 2
    /\ file = NoFile
    /\ h = [p \in Procs |-> NoHandle]
    /\ op = Call("init", "-", "-", NoTitle)
    /\ args = NoArgs
    /\ wpc = "polling"
    /\ wjob = 1
    /\ max_poll_interval \in MaxPollIntervals
    /\ soft_error_max \in 0..MaxSoftErrorMax
    /\ poll_interval = InitialPollInterval(max_poll_interval)
    /\ status = "None"
    /\ soft_error_count = 0
    /\ job_info = NoJobInfo
    /\ exc = NoExc
    /\ polls = 0
    /\ retry_sleeps = 0
    /\ last = NoLast
    /\ rr = NoResolver

NextWait ==
    \/ \E has \in BOOLEAN : PollOk(has)
    \/ PollConnectionError
    \/ \E code \in HttpCodes : PollApiError(code)
    \/ BackendProgress(wjob)

SpecWait == InitWait /\ [][NextWait]_vars

\* SpecWait under the two assumptions of the poller's termination: the backend
\* goes on working on the job, and a status poll succeeds in the end
SpecWaitFair ==
    /\ SpecWait
    /\ WF_vars(BackendProgress(wjob))
    /\ WF_vars(\E has \in BOOLEAN : PollOk(has))

----------------------------------------------------------------------------
(* SpecCache: one notebook process constructing CachedJobs and running them, *)
(* run after run, against a backend whose jobs may expire                    *)

InitCache ==
    /\ jobs = [i \in Ids |-> NoJob]
    /\ nextId = 1
    /\ file \in {NoFile, [kind |-> "corrupt", map |-> EmptyCache]}
    /\ h = [p \in Procs |-> NoHandle]
    /\ op = Call("init", "-", "-", NoTitle)
    /\ args = NoArgs
    /\ wpc = "idle"
    /\ wjob = NoId
    /\ max_poll_interval = 60
    /\ soft_error_max = 10
    /\ poll_interval = 0
    /\ status = "None"
    /\ soft_error_count = 0
    /\ job_info = NoJobInfo
    /\ exc = NoExc
    /\ polls = 0
    /\ retry_sleeps = 0
    /\ last = NoLast
    /\ rr = NoResolver

NextCache ==
    \/ \E title \in Titles, path \in CachePaths, job_id \in Ids \cup {NoId},
          flat_graph \in BOOLEAN, recalculate \in BOOLEAN :
          Construct("p1", title, path, job_id, flat_graph, recalculate)
              /\ UNCHANGED args
    \/ StartAndWait("p1") /\ UNCHANGED args
    \/ \E id \in Ids : BackendDelete(id) /\ UNCHANGED args

SpecCache == InitCache /\ [][NextCache]_vars

----------------------------------------------------------------------------
(* SpecRoundTrip: SpecCache with the arguments of each constructor call on  *)
(* record: one process that holds one CachedJob at a time, run after run,   *)
(* on a cache file that starts empty                                        *)

\* the job_id given is none, or the last id the backend will issue: one it
\* does not list until then
ConstructRecorded(p) ==
    \E title \in Titles, path \in CachePaths, job_id \in {NoId, MaxJobs},
       flat_graph \in BOOLEAN, recalculate \in BOOLEAN :
       /\ Construct(p, title, path, job_id, flat_graph, recalculate)
       /\ args' = [title |-> title, path |-> path, job_id |-> job_id,
                   flat_graph |-> flat_graph, recalculate |-> recalculate]

NextRoundTrip ==
    \/ ConstructRecorded("p1")
    \/ StartAndWait("p1") /\ UNCHANGED args
    \/ \E id \in Ids : BackendDelete(id) /\ UNCHANGED args

SpecRoundTrip == InitCache /\ [][NextRoundTrip]_vars

----------------------------------------------------------------------------
(* SpecShared: two CachedJob objects alive at once on one cache file: the   *)
(* variables p1 and p2 of one notebook process, or of two processes. Each   *)
(* operation is one step, so the two cases have the same behaviours.        *)

\* CachedJob(title, F, connection, flat_graph=graph, recalculate=...): every
\* object is given the shared file and a graph
NextShared ==
    \/ \E p \in Procs, title \in Titles, recalculate \in BOOLEAN :
          Construct(p, title, "F", NoId, TRUE, recalculate) /\ UNCHANGED args
    \/ \E p \in Procs : StartAndWait(p) /\ UNCHANGED args

SpecShared == InitCache /\ [][NextShared]_vars

----------------------------------------------------------------------------
(* SpecResolve: constructor calls of one process, each with its arguments   *)
(* on record, in an environment left by earlier runs: the cache file they   *)
(* wrote (or none, or an unreadable one) and the jobs the backend still     *)
(* lists among those it has issued                                          *)

InitResolve ==
    /\ nextId \in 1..(MaxJobs + 1)
    /\ jobs \in [Ids -> {NoJob, [status |-> "created"], [status |-> "finished"]}]
    /\ \A i \in Ids : i >= nextId => jobs[i] = NoJob
    /\ file \in {NoFile, [kind |-> "corrupt", map |-> EmptyCache]}
                \cup {[kind |-> "json", map |-> m] : m \in [Titles -> Ids \cup {NoId}]}
    \* an entry was saved for a job that had been issued and had finished; the
    \* job may have expired since
    /\ \A t \in Titles : file.map[t] < nextId
    /\ \A t \in Titles : file.map[t] # NoId
           => jobs[file.map[t]].status \in {"finished", Absent}
    /\ h = [p \in Procs |-> NoHandle]
    /\ op = Call("init", "-", "-", NoTitle)
    /\ args = NoArgs
    /\ wpc = "idle"
    /\ wjob = NoId
    /\ max_poll_interval = 60
    /\ soft_error_max = 10
    /\ poll_interval = 0
    /\ status = "None"
    /\ soft_error_count = 0
    /\ job_info = NoJobInfo
    /\ exc = NoExc
    /\ polls = 0
    /\ retry_sleeps = 0
    /\ last = NoLast
    /\ rr = NoResolver

NextResolve ==
    \E title \in Titles, path \in CachePaths, job_id \in Ids \cup {NoId},
       flat_graph \in BOOLEAN, recalculate \in BOOLEAN :
       /\ Construct("p1", title, path, job_id, flat_graph, recalculate)
       /\ args' = [title |-> title, path |-> path, job_id |-> job_id,
                   flat_graph |-> flat_graph, recalculate |-> recalculate]

SpecResolve == InitResolve /\ [][NextResolve]_vars

----------------------------------------------------------------------------
(* SpecAssets: get_files_from_dc and get_urls_from_dc from the point where   *)
(* get_or_create_results has returned the results of a finished job          *)

\* no wait is running
WaitIdle ==
    /\ wpc = "idle"
    /\ wjob = NoId
    /\ max_poll_interval = 60
    /\ soft_error_max = 10
    /\ poll_interval = 0
    /\ status = "None"
    /\ soft_error_count = 0
    /\ job_info = NoJobInfo
    /\ exc = NoExc
    /\ polls = 0
    /\ retry_sleeps = 0
    /\ last = NoLast

\* no CachedJob is in use
CacheIdle ==
    /\ file = NoFile
    /\ h = [p \in Procs |-> NoHandle]
    /\ op = Call("init", "-", "-", NoTitle)
    /\ args = NoArgs

InitAssets ==
    /\ jobs = [i \in Ids |-> IF i = 1 THEN [status |-> "finished"] ELSE NoJob]
    /\ nextId = 2
    /\ CacheIdle
    /\ WaitIdle
    /\ \E fn \in {"get_files_from_dc", "get_urls_from_dc"}, assets \in AssetLists :
           rr = [NoResolver EXCEPT !.fn = fn, !.pc = "results", !.job = 1,
                                   !.results = [id |-> 1, vito |-> FALSE],
                                   !.assets = assets, !.i = 1]

NextAssets ==
    \/ FilesLoop
    \/ FilesReturn
    \/ UrlsReturn

SpecAssets == InitAssets /\ [][NextAssets]_vars

----------------------------------------------------------------------------
(* SpecResults: one call of get_or_create_results or get_or_create_cache     *)
(* against a backend that lists any jobs, by step of the backend calls made  *)

\* the job summaries a backend may hold for one id
ListedJobs ==
    {Unlisted} \cup {[status |-> s, title |-> t, updated |-> u] :
                        s \in {"finished", "error"}, t \in Titles, u \in Updates}

InitResults ==
    /\ jobs \in [1..NewId -> ListedJobs]
    /\ jobs[NewId] = Unlisted
    /\ nextId = NewId
    /\ CacheIdle
    /\ WaitIdle
    /\ \E fn \in {"get_or_create_results", "get_or_create_cache"},
          job_name \in Titles, recalculate \in BOOLEAN :
          /\ fn = "get_or_create_cache" => ~recalculate
          /\ rr = [NoResolver EXCEPT !.fn = fn, !.pc = "called",
                                     !.job_name = job_name,
                                     !.recalculate = recalculate]

NextResults ==
    \/ Lookup
    \/ CreateJob
    \/ StartJob
    \/ Wait
    \/ TakeResults

SpecResults == InitResults /\ [][NextResults]_vars

----------------------------------------------------------------------------
(* Properties of the CachedJob constructor, checked under SpecResolve: every *)
(* step is a constructor call, args' its arguments, op' its outcome          *)

\* the file read through path maps title to an id
FileMaps(path, title) == path = "F" /\ file.kind = "json" /\ file.map[title] # NoId

\* the call is a cache hit: the title is in the cache and recalculate is false
IsHit(a) == FileMaps(a.path, a.title) /\ ~a.recalculate

NoJobCreated == jobs' = jobs /\ nextId' = nextId /\ op'.created = NoTitle

\* exactly one job was created, by one create_job call with that title
OneJobCreated(title) ==
    /\ nextId' = nextId + 1
    /\ jobs' = [jobs EXCEPT ![nextId] = [status |-> "created"]]
    /\ op'.created = title

NotFound == "AttributeError: job id not found in backend."
NoIdNoGraph == "AttributeError: requires either a job_id, or a process_graph"

ConstructStep == op'.name = "construct" /\ op'.proc = "p1"

\* C1: when the cache file maps the title to an id and recalculate is false,
\* every construction with that title binds the handle to that id with
\* is_cached = true, calls no create_job and leaves file and backend as they
\* were (so the next construction does the same), whatever job_id and graph
\* are given.
C1_CacheHitIdempotent ==
    [][(ConstructStep /\ IsHit(args'))
       => /\ op'.outcome = "bound"
          /\ h'["p1"].state = "bound"
          /\ h'["p1"].job_id = file.map[args'.title]
          /\ h'["p1"].is_cached
          /\ NoJobCreated
          /\ file' = file]_vars

C1_Witness ==
    /\ op.name = "construct" /\ op.outcome = "bound"
    /\ args.job_id # NoId /\ args.flat_graph /\ ~args.recalculate
    /\ file.kind = "json" /\ args.path = "F"
    /\ h["p1"].is_cached
    /\ h["p1"].job_id = file.map[args.title]
    /\ h["p1"].job_id # args.job_id

\* the call is a cache miss by title, with a graph and no job_id
IsMissWithGraph(a) ==
    ~FileMaps(a.path, a.title) /\ a.job_id = NoId /\ a.flat_graph

\* C2, as claimed: a construction with a title absent from the cache, no job_id
\* and a graph creates exactly one job and persists exactly one new cache
\* entry title -> new id.
C2_MissCreatesAndPersists ==
    [][(ConstructStep /\ IsMissWithGraph(args'))
       => /\ OneJobCreated(args'.title)
          /\ file'.kind = "json"
          /\ file'.map[args'.title] = nextId
          /\ \A t \in Titles \ {args'.title} : file'.map[t] = file.map[t]]_vars

\* C2, amended: such a construction creates exactly one job (one create_job
\* call with the title), binds the handle to the newly issued id with
\* is_cached = false, and persists nothing: the cache file is as it was.
C2_MissCreatesOneJob ==
    [][(ConstructStep /\ IsMissWithGraph(args'))
       => /\ OneJobCreated(args'.title)
          /\ op'.outcome = "bound"
          /\ h'["p1"].state = "bound"
          /\ h'["p1"].job_id = nextId
          /\ ~h'["p1"].is_cached
          /\ file' = file]_vars

C2_Witness ==
    /\ op.name = "construct" /\ op.created = args.title
    /\ args.job_id = NoId /\ args.flat_graph /\ args.path = "F"
    /\ file.kind = "json" /\ file.map[args.title] = NoId
    /\ h["p1"].job_id = nextId - 1
    /\ jobs[h["p1"].job_id].status = "created"

\* what the claim says of a call with a job_id: no job is created; an id the
\* backend does not list raises the lookup error, a listed one is bound with
\* is_cached = false
ExplicitIdValidated ==
    /\ NoJobCreated
    /\ IF jobs[args'.job_id].status = Absent
       THEN op'.outcome = NotFound /\ h'["p1"].state = "none"
       ELSE /\ op'.outcome = "bound"
            /\ h'["p1"].state = "bound"
            /\ h'["p1"].job_id = args'.job_id
            /\ ~h'["p1"].is_cached

\* C3, as claimed: every construction with a job_id validates it against
\* list_jobs().
C3_ExplicitIdAlwaysValidated ==
    [][(ConstructStep /\ args'.job_id # NoId) => ExplicitIdValidated]_vars

\* C3, amended: every construction with a job_id that is not a cache hit (the
\* title is not in the cache, or recalculate is true) validates it; on a cache
\* hit the job_id is not looked at.
C3_ExplicitIdValidatedOnMiss ==
    [][(ConstructStep /\ args'.job_id # NoId /\ ~IsHit(args'))
       => ExplicitIdValidated]_vars

C3_Witness ==
    /\ op.name = "construct" /\ op.outcome = NotFound
    /\ args.job_id # NoId /\ args.flat_graph
    /\ jobs[args.job_id].status = Absent
    /\ h["p1"].state = "none"

----------------------------------------------------------------------------
(* Properties of the cache file, checked under SpecCache *)

\* C9: the cache file changes only in a start_and_wait that returned, of a
\* handle with a cache path, whose job is finished; no construction and no
\* start_and_wait that raised changes it.
C9_FileWrittenOnlyAfterFinished ==
    [][/\ file' # file
          => /\ op'.name = "start_and_wait" /\ op'.outcome = "returned"
             /\ h[op'.proc].local_cache_file = "F"
             /\ jobs'[h[op'.proc].job_id].status = "finished"
       /\ op'.name = "construct" => file' = file
       /\ (op'.name = "start_and_wait" /\ op'.outcome # "returned")
          => file' = file]_vars

C9_Witness ==
    /\ op.name = "start_and_wait"
    /\ op.outcome = "JobFailedException: error"
    /\ h["p1"].local_cache_file = "F"
    /\ file.kind = "json"
    /\ file.map[h["p1"].job_title] # NoId
    /\ file.map[h["p1"].job_title] # h["p1"].job_id

\* C10, as claimed: a construction binds a handle only to an id of a job that
\* exists on the backend, also when the id comes from the cache file and the
\* backend's job list has changed since it was written.
C10_BoundIdsExist ==
    [][(op'.name = "construct" /\ op'.outcome = "bound")
       => jobs'[h'[op'.proc].job_id].status # Absent]_vars

----------------------------------------------------------------------------
(* Properties of the cache file over runs, checked under SpecRoundTrip *)

ReturnedStep == op'.name = "start_and_wait" /\ op'.outcome = "returned"

\* C18: a start_and_wait that returns, of a handle with title T and file F,
\* leaves F a readable file that maps T to the handle's job, which has
\* finished; the entry stays as it is until a start_and_wait for T returns
\* again; and while F maps T, every construction with T, F and recalculate =
\* false is a cache hit: bound to that id with is_cached = true, no job
\* created, and a job_id given with it is not validated against the listing.
C18_SavedEntryIsReused ==
    /\ [][(ReturnedStep /\ h["p1"].local_cache_file = "F")
          => /\ file'.kind = "json"
             /\ file'.map[h["p1"].job_title] = h["p1"].job_id
             /\ jobs'[h["p1"].job_id].status = "finished"]_vars
    /\ [][/\ file.kind = "json" => file'.kind = "json"
          /\ \A t \in Titles :
                file'.map[t] # file.map[t]
                => /\ ReturnedStep
                   /\ h["p1"].job_title = t /\ h["p1"].local_cache_file = "F"]_vars
    /\ [][(ConstructStep /\ IsHit(args'))
          => /\ op'.outcome = "bound"
             /\ h'["p1"].is_cached
             /\ h'["p1"].job_id = file.map[args'.title]
             /\ NoJobCreated
             /\ file' = file]_vars

\* the entry saved two operations ago is reused, although a graph and a
\* job_id the backend does not list are given
C18_Witness ==
    /\ op.name = "construct" /\ op.outcome = "bound"
    /\ args.path = "F" /\ ~args.recalculate
    /\ args.flat_graph /\ args.job_id # NoId
    /\ jobs[args.job_id].status = Absent
    /\ file.kind = "json" /\ file.map[args.title] # NoId
    /\ jobs[file.map[args.title]].status = "finished"
    /\ h["p1"].is_cached
    /\ h["p1"].job_id = file.map[args.title]

----------------------------------------------------------------------------
(* Properties of a cache file two CachedJob objects use, checked under *)
(* SpecShared                                                          *)

\* the object that made the step, before it
Saver == h[op'.proc]

\* C19, as claimed: a save changes the entry of the saving object's own title
\* only and leaves the entry of every other title as it is in the file; no
\* operation removes a title from a readable file.
C19_EntriesAreNeverLost ==
    /\ [][ReturnedStep
          => \A t \in Titles \ {Saver.job_title} : file'.map[t] = file.map[t]]_vars
    /\ [][\A t \in Titles :
             (file.kind = "json" /\ file.map[t] # NoId)
             => (file'.kind = "json" /\ file'.map[t] # NoId)]_vars

\* C20: an object reads the mapping from the file once, when it is
\* constructed; afterwards only its own save changes its mapping; and a save
\* replaces the content of the file by that mapping with the object's own
\* entry put in, whatever the file holds by then.
C20_SaveRewritesFromMemory ==
    /\ [][(op'.name = "construct" /\ op'.outcome = "bound")
          => h'[op'.proc].job_cache =
                (IF file.kind = "json" THEN file.map ELSE EmptyCache)]_vars
    /\ [][op'.name = "start_and_wait"
          => IF op'.outcome = "returned"
             THEN /\ file'.kind = "json"
                  /\ file'.map = [Saver.job_cache EXCEPT
                                     ![Saver.job_title] = Saver.job_id]
                  /\ h'[op'.proc].job_cache = file'.map
             ELSE file' = file /\ h' = h]_vars
    /\ [][\A p \in Procs : h'[p] # h[p] => op'.proc = p]_vars

\* the lost update: p1 finished a job under T1 and saved, p2 then finished one
\* under T2 and saved: the file has T2 and lacks T1
C20_Witness ==
    /\ op.name = "start_and_wait" /\ op.outcome = "returned" /\ op.proc = "p2"
    /\ h["p1"].job_title = "T1" /\ h["p2"].job_title = "T2"
    /\ ~h["p1"].is_cached /\ ~h["p2"].is_cached
    /\ h["p1"].job_cache["T1"] = h["p1"].job_id
    /\ jobs[h["p1"].job_id].status = "finished"
    /\ jobs[h["p2"].job_id].status = "finished"
    /\ file.kind = "json"
    /\ file.map["T2"] = h["p2"].job_id
    /\ file.map["T1"] = NoId

----------------------------------------------------------------------------
(* Properties of the poller, checked under SpecWait *)

PollStep == polls' = polls + 1
SoftErrorStep == PollStep /\ last'.poll \in {"ConnectionError", "503"}
Excessive == "OpenEoClientException: Excessive soft errors"

C5_BackoffMonotone ==
    /\ [](/\ polls = 0 => poll_interval = Min(5, max_poll_interval) * Unit
          /\ poll_interval <= max_poll_interval * Unit)
    /\ [][/\ poll_interval' >= poll_interval
          /\ IF PollStep /\ last'.slept = "poll"
             THEN /\ last'.secs = poll_interval
                  /\ IF poll_interval' < max_poll_interval * Unit
                     THEN 4 * (poll_interval' - poll_interval) = poll_interval
                     ELSE poll_interval + (poll_interval \div 4)
                             >= max_poll_interval * Unit
             ELSE poll_interval' = poll_interval]_vars

C5_Witness ==
    /\ max_poll_interval = 60
    /\ poll_interval = 60 * Unit
    /\ last.slept = "poll"
    /\ last.secs < 60 * Unit
    /\ last.secs > 50 * Unit

\* C6: wait returns normally exactly when the status its loop ended on is
\* finished; when the loop ended on any other status, wait raised the
\* JobFailedException that carries the job and that status.
C6_TerminalNonFinishedFails ==
    /\ (wpc = "returned") = (status = "finished")
    /\ (status \notin ActiveStatuses \cup {"None", "finished"})
          => /\ wpc = "raised"
             /\ exc = [type |-> "JobFailedException", job |-> wjob,
                       status |-> status]
    /\ exc.type = "JobFailedException"
          => status \notin ActiveStatuses \cup {"None", "finished"}

C6_Witness ==
    /\ polls >= 3
    /\ wpc = "raised"
    /\ exc = [type |-> "JobFailedException", job |-> wjob, status |-> "error"]
    /\ jobs[wjob].status = "error"

\* C7, as claimed: every poll that fails with a 403, the first poll of a wait
\* included, re-authenticates once, leaves the soft-error counter alone, raises
\* nothing and leaves wait polling.
C7_ForbiddenAlwaysRecovered ==
    [][(PollStep /\ last'.poll = "403")
       => /\ last'.reauth
          /\ soft_error_count' = soft_error_count
          /\ retry_sleeps' = retry_sleeps
          /\ exc' = NoExc
          /\ wpc' = "polling"]_vars

\* a poll on which describe_job returned
OkPollStep == PollStep /\ last'.poll = "ok"
\* a poll that failed with an API error of a code other than 403 and 503
HardErrorStep == PollStep /\ last'.poll \in {ToString(c) : c \in HttpCodes \ {403, 503}}
\* once wait has returned or raised, nothing of it moves any more
StoppedForGood == wpc # "polling" => UNCHANGED waitVars

\* C11: a poll that fails with an API error of a code other than 403 and 503
\* raises that error at once: no retry sleep, no re-authentication, the
\* soft-error counter, the status, the job info and the poll interval are as
\* they were, and after it wait makes no further poll and acts on no status.
C11_HardErrorsPropagate ==
    /\ [][HardErrorStep
          => /\ wpc' = "raised"
             /\ exc'.type = "OpenEoApiError"
             /\ last'.slept = "none" /\ ~last'.reauth
             /\ retry_sleeps' = retry_sleeps
             /\ soft_error_count' = soft_error_count
             /\ status' = status /\ job_info' = job_info
             /\ poll_interval' = poll_interval]_vars
    /\ [][StoppedForGood]_vars
    /\ [](exc.type = "OpenEoApiError" => wpc = "raised" /\ last.poll \in {"404", "500"})

C11_Witness ==
    /\ wpc = "raised" /\ exc.type = "OpenEoApiError"
    /\ last.poll = "500" /\ last.prev = "503"
    /\ soft_error_count >= 1 /\ soft_error_count <= soft_error_max
    /\ status = "running"
    /\ jobs[wjob].status = "finished"

\* the statuses the specification names as the ones that keep the poller going
ClaimedActiveStatuses == {"created", "queued", "running"}

\* C12, as claimed: a successful poll keeps wait polling exactly when its
\* status is one of created, queued, running; with any other status wait stops
\* at once, without a sleep; wait does not stop on one of the three unless an
\* error aborts it.
C12_StopsOutsideCreatedQueuedRunning ==
    /\ [][OkPollStep
          => IF status' \in ClaimedActiveStatuses
             THEN wpc' = "polling" /\ last'.slept = "poll"
             ELSE wpc' \in {"returned", "raised"} /\ last'.slept = "none"]_vars
    /\ [][StoppedForGood]_vars
    /\ []((wpc # "polling" /\ status \in ClaimedActiveStatuses \cup {"None"})
             => exc.type \in {Excessive, "OpenEoApiError", "UnboundLocalError"})

\* C12, amended: the same with the four statuses submitted, created, queued,
\* running: a successful poll reads the job's status (N/A when there is
\* none), keeps wait polling (one poll sleep) exactly when it is one of the
\* four, and otherwise stops it at once without a sleep; while wait polls the
\* last observed status is one of the four; wait stops on one of the four only
\* by an error; once stopped it polls and sleeps no more.
C12_StopsOutsideActiveStatuses ==
    /\ [][OkPollStep
          => /\ status' = (IF job_info'.has_status THEN jobs[wjob].status ELSE "N/A")
             /\ IF status' \in ActiveStatuses
                THEN wpc' = "polling" /\ last'.slept = "poll"
                ELSE wpc' \in {"returned", "raised"} /\ last'.slept = "none"]_vars
    /\ [][StoppedForGood]_vars
    /\ [](wpc = "polling" => status \in ActiveStatuses \cup {"None"})
    /\ []((wpc # "polling" /\ status \in ActiveStatuses \cup {"None"})
             => exc.type \in {Excessive, "OpenEoApiError", "UnboundLocalError"})

C12_Witness ==
    /\ wpc = "polling"
    /\ last.poll = "ok" /\ last.slept = "poll"
    /\ status = "submitted"
    /\ status \notin ClaimedActiveStatuses

\* the ways wait ends according to the specification
ClaimedExits == {"JobFailedException", Excessive, "OpenEoApiError"}

\* C15, as claimed: when the backend goes on working on the job and a poll
\* succeeds in the end, wait ends (within the MaxPolls polls of the model), and
\* it ends in one of four ways only: it returns on finished, or raises
\* JobFailedException, 'Excessive soft errors' or the API error of a hard
\* failure; a successful poll with an active status neither returns nor raises.
C15_WaitEndsInOneOfFourWays ==
    /\ <>(wpc \in {"returned", "raised"} \/ polls = MaxPolls)
    /\ [](wpc = "returned" => status = "finished" /\ exc = NoExc)
    /\ [](wpc = "raised" => exc.type \in ClaimedExits)
    /\ [][(OkPollStep /\ status' \in ActiveStatuses)
          => wpc' = "polling" /\ exc' = NoExc]_vars

\* C16: the soft-error counter starts at 0, grows by exactly 1 on every soft
\* error and is changed by nothing else (no successful poll, no 403, no poll
\* sleep resets it); a soft error leaves the poll interval as it is and aborts
\* the wait exactly when the total so far exceeds soft_error_max, whatever
\* polls came in between.
C16_SoftErrorCountIsCumulative ==
    /\ [](polls = 0 => soft_error_count = 0)
    /\ [][soft_error_count' =
             IF SoftErrorStep THEN soft_error_count + 1 ELSE soft_error_count]_vars
    /\ [][SoftErrorStep
          => /\ poll_interval' = poll_interval
             /\ (wpc' = "raised") = (soft_error_count + 1 > soft_error_max)
             /\ (wpc' = "raised") => exc'.type = Excessive]_vars
    /\ [][(last.poll \in {"ok", "403"} /\ OkPollStep)
          => soft_error_count' = soft_error_count]_vars

\* the last soft error came right after a successful poll that itself came
\* after the earlier soft errors
C16_Witness ==
    /\ wpc = "raised" /\ exc.type = Excessive
    /\ soft_error_max >= 2
    /\ soft_error_count = soft_error_max + 1
    /\ last.poll \in {"ConnectionError", "503"}
    /\ last.prev = "ok"
    /\ poll_interval > InitialPollInterval(max_poll_interval)

----------------------------------------------------------------------------
(* Properties of get_or_create_results / get_or_create_cache, checked under *)
(* SpecResults                                                              *)

\* the jobs listed before the call that have the title and are finished
FinishedOfTitle ==
    {i \in Ids : jobs[i].title = rr.job_name /\ jobs[i].status = "finished"}
\* the call is one that reuses: recalculate is false (get_or_create_cache has
\* no such flag) and there is a finished job of the title
Reuses ==
    /\ rr.fn = "get_or_create_cache" \/ ~rr.recalculate
    /\ FinishedOfTitle # {}
ResultsCallOf(fn) == IF fn = "get_or_create_cache" THEN "load_result" ELSE "get_results"
\* the backend calls of a call that creates, in their order
CreatingCalls ==
    (IF rr.fn = "get_or_create_cache" \/ ~rr.recalculate THEN <<"list_jobs">> ELSE <<>>)
        \o <<"create_job", "start_job", "describe_job", ResultsCallOf(rr.fn)>>

\* C17: when recalculate is false and the backend lists a finished job of the
\* title, the call makes no create_job and no start_job and takes the results
\* of a finished job of the title whose updated is the greatest; otherwise its
\* backend calls are, in this order, (list_jobs,) one create_job, start_job,
\* the status polls, and the results call, which is made only when the new
\* job has finished; a wait that raises leaves the call without results.
C17_ReusesLatestFinishedOrCreatesOne ==
    IF Reuses
    THEN /\ rr.pc \in {"called", "results"}
         /\ jobs[NewId] = Unlisted /\ nextId = NewId
         /\ rr.pc = "called" => rr.calls = <<>>
         /\ rr.pc = "results"
               => /\ rr.calls = <<"list_jobs", ResultsCallOf(rr.fn)>>
                  /\ rr.results.id \in FinishedOfTitle
                  /\ \A i \in FinishedOfTitle :
                        jobs[i].updated <= jobs[rr.results.id].updated
    ELSE /\ StartsWith(CreatingCalls, rr.calls)
         /\ (jobs[NewId] # Unlisted) = (\E k \in DOMAIN rr.calls :
                                            rr.calls[k] = "create_job")
         /\ \A i \in Ids : jobs[i].status \in {Absent, "finished", "error"}
         /\ rr.pc = "results"
               => /\ rr.calls = CreatingCalls
                  /\ nextId = NewId + 1
                  /\ rr.job = NewId /\ rr.results.id = NewId
                  /\ rr.fn = "get_or_create_results" => rr.results.vito = rr.vito
                  /\ jobs[NewId].status = "finished"
                  /\ jobs[NewId].title = rr.job_name
         /\ rr.pc # "results" => rr.results = NoResults
         /\ rr.pc = "raised" => rr.exc # "none"

\* two finished jobs of the title, the one listed first updated last: it is the
\* one reused
C17_Witness ==
    /\ rr.pc = "results" /\ ~rr.recalculate
    /\ Cardinality(FinishedOfTitle) = 2
    /\ jobs[1].updated > jobs[2].updated
    /\ rr.results.id = 1
    /\ jobs[NewId] = Unlisted

----------------------------------------------------------------------------
(* Properties of the asset lists, checked under SpecAssets *)

\* the media types of MediaTypes that begin with application/x-netcdf or with
\* image/tiff
AcceptedMediaTypes == {<<"application/", "x-netcdf">>,
                       <<"image/", "tiff">>,
                       <<"image/", "tiff", "; application=geotiff">>}
IsAccepted(asset) == asset.type \in AcceptedMediaTypes
\* the assets among the first n that pass the filter, in result-set order
AcceptedAmong(assets, n) == SelectSeq(SubSeq(assets, 1, n), IsAccepted)

\* C13: get_files_from_dc downloads, in result-set order, exactly the assets
\* whose media type starts with application/x-netcdf or image/tiff, each to
\* out_directory / name, downloads no other asset, and returns the paths of
\* exactly those downloads in that order.
C13_FilesAreTheAcceptedAssets ==
    rr.fn = "get_files_from_dc"
    => LET kept == AcceptedAmong(rr.assets, rr.i - 1) IN
       /\ rr.downloads = [k \in 1..Len(kept) |-> kept[k].name]
       /\ rr.files = [k \in 1..Len(kept) |-> <<"out_directory">> \o kept[k].name]
       /\ rr.pc = "done" => /\ rr.i = Len(rr.assets) + 1
                            /\ rr.out = rr.files

C13_Witness ==
    /\ rr.fn = "get_files_from_dc" /\ rr.pc = "done"
    /\ Len(rr.assets) = 3
    /\ rr.assets[1].type = <<"text/", "plain">>
    /\ rr.assets[2].type = <<"image/", "tiff", "; application=geotiff">>
    /\ rr.assets[3].type = <<"application/", "x-netcdf">>
    /\ rr.downloads = <<rr.assets[2].name, rr.assets[3].name>>
    /\ Len(rr.out) = 2

\* C14, as claimed: get_urls_from_dc returns the href of exactly the assets
\* whose media type starts with application/x-netcdf or image/tiff; the href
\* of an asset of another media type is not in the list.
C14_UrlsAreTheAcceptedAssets ==
    (rr.fn = "get_urls_from_dc" /\ rr.pc = "done")
    => LET kept == AcceptedAmong(rr.assets, Len(rr.assets)) IN
       rr.out = [k \in 1..Len(kept) |-> kept[k].href]

====
